---- MODULE Spec2Model ----
(***************************************************************************)
(* Model of infoset/utils/daemon.py: the Daemon class (double-fork         *)
(* daemonization, PID file, optional lock file, start / stop / restart /   *)
(* force / status) driven by a bounded number of control invocations that  *)
(* share one (pidfile, lockfile) pair and interleave at the granularity of *)
(* the system calls that touch shared state.                               *)
(***************************************************************************)
EXTENDS Integers, Sequences, FiniteSets, TLC

\* ------------------------------------------------------------------ bounds

\* Number of control invocations (processes running start/stop/...) that
\* interleave freely under Spec; SpecSerial runs one more.
MaxInv == 2

\* PID of the first control invocation; each invocation owns three
\* consecutive PIDs (caller, first child, second child).
FirstPid == 8

\* Invocation slots of the model; the ones a specification does not run stay
\* idle.
Inv == 1..(MaxInv + 1)

\* The invocations Spec runs.
FreeInv == 1..MaxInv

\* A PID that belongs to no process of the model (a stale PID-file entry).
StalePid == FirstPid - 1

CallerPid(c) == FirstPid + 3 * (c - 1)

MidPid(c) == CallerPid(c) + 1

DaemonPid(c) == CallerPid(c) + 2

\* ------------------------------------------------------- PID-file contents

DigitChars == <<"0", "1", "2", "3", "4", "5", "6", "7", "8", "9">>

DigitChar(d) == DigitChars[d + 1]

IsDigit(ch) == \E d \in 0..9 : DigitChars[d + 1] = ch

DigitVal(ch) == CHOOSE d \in 0..9 : DigitChars[d + 1] = ch

IsSpace(ch) == ch \in {"\n", " "}

\* str(os.getpid())
RECURSIVE PidStr(_)
PidStr(n) ==
    IF n < 10 THEN <<DigitChar(n)>>
    ELSE PidStr(n \div 10) \o <<DigitChar(n % 10)>>

\* Faulty variant: the newline is written but the PID's last digit is dropped.
PidFileTextNoLast(n) == SubSeq(PidStr(n), 1, Len(PidStr(n)) - 1) \o <<"\n">>

\* f_handle.write(pid + '\n')
PidFileText(n) == PidStr(n) \o <<"\n">>

\* str.strip(): drop leading and trailing whitespace
RECURSIVE LStrip(_)
LStrip(s) ==
    IF s # <<>> /\ IsSpace(Head(s)) THEN LStrip(Tail(s)) ELSE s

RECURSIVE RStrip(_)
RStrip(s) ==
    IF s # <<>> /\ IsSpace(s[Len(s)]) THEN RStrip(SubSeq(s, 1, Len(s) - 1))
    ELSE s

Strip(s) == LStrip(RStrip(s))

RECURSIVE DigitsVal(_)
DigitsVal(s) ==
    IF s = <<>> THEN 0
    ELSE 10 * DigitsVal(SubSeq(s, 1, Len(s) - 1)) + DigitVal(s[Len(s)])

\* int(text): a value for a non-empty run of decimal digits, ValueError
\* otherwise (signs and underscores do not occur in the modelled contents).
ParseInt(s) ==
    IF s # <<>> /\ \A i \in 1..Len(s) : IsDigit(s[i])
    THEN [kind |-> "int", val |-> DigitsVal(s)]
    ELSE [kind |-> "ValueError", val |-> 0]

NoFile == [exists |-> FALSE, data |-> <<>>]

File(d) == [exists |-> TRUE, data |-> d]

\* The try/except around open()/int() in start(): IOError gives pid = None,
\* ValueError is not caught.
StartReadPid(f) ==
    IF ~f.exists THEN [kind |-> "None", val |-> 0]
    ELSE ParseInt(Strip(f.data))

\* The same block in stop().
StopReadPid(f) ==
    IF ~f.exists THEN [kind |-> "None", val |-> 0]
    ELSE ParseInt(Strip(f.data))

\* `if pid:` in start()
StartAlreadyRunning(r) == r.kind = "int" /\ r.val # 0

\* Faulty variant: `if pid == 0:`, which lets pid = None through to the loop.
StopNotRunningZeroOnly(r) == r.kind = "int" /\ r.val = 0

\* `if not pid:` in stop()
StopNotRunning(r) == r.kind = "None" \/ (r.kind = "int" /\ r.val = 0)

\* PID-file contents present before any invocation runs: none, or left behind
\* by an earlier run or by an operator.
InitialPidFiles ==
    {NoFile, File(<<"0", "\n">>), File(<<"x", "\n">>),
     File(PidFileText(StalePid))}

\* ------------------------------------------------------------------- state

VARIABLES
    pidfile,         \* the PID file: [exists, data]
    attached,        \* invocations holding an open handle on the current PID file
    lockfile,        \* TRUE iff the lock file exists
    lockConfigured,  \* self.lockfile is not None
    proc,            \* PID of the process now running the invocation's code, 0 if none
    pending,         \* PIDs with a SIGTERM sent and not yet acted on
    op,              \* the operation the invocation was started with
    pc,              \* position of the invocation in the code
    seen,            \* the PID file as read by the invocation's latest check
    log,             \* log codes and status lines emitted, in order
    exit,            \* how the invoking (caller) process ended
    hooks            \* invocations whose process has registered delpid with atexit

vars ==
    <<pidfile, attached, lockfile, lockConfigured, proc, pending, op, pc,
      seen, log, exit, hooks>>

Ops == {"start", "stop", "restart", "force", "status"}

Alive == {proc[c] : c \in Inv} \ {0}

\* Daemon.__init__: nothing is touched; the files are whatever is on disk.
Init ==
    /\ pidfile \in InitialPidFiles
    /\ attached = {}
    /\ lockConfigured \in BOOLEAN
    /\ lockfile \in (IF lockConfigured THEN BOOLEAN ELSE {FALSE})
    /\ proc = [c \in Inv |-> 0]
    /\ pending = {}
    /\ op = [c \in Inv |-> "none"]
    /\ pc = [c \in Inv |-> "idle"]
    /\ seen = [c \in Inv |-> NoFile]
    /\ log = [c \in Inv |-> <<>>]
    /\ exit = [c \in Inv |-> "none"]
    /\ hooks = {}

\* ----------------------------------------------------------------- helpers

\* Daemon.delpid: remove the PID file if it exists.
DelPid(f) == NoFile

\* Faulty variant: dellock() that leaves the file in place.
DelLockKeeps(l) == l

\* Daemon.dellock: remove the lock file if one is configured and exists.
DelLock(l) == IF lockConfigured /\ l THEN FALSE ELSE l

\* write() through a handle opened with 'w+' (offset 0): the bytes replace the
\* head of whatever the file holds by then.
Overlay(new, old) ==
    IF Len(old) > Len(new) THEN new \o SubSeq(old, Len(new) + 1, Len(old))
    ELSE new

\* Faulty variant: os.kill never reports a missing process.
KillOutcomeAlwaysSent(target) == "sent"

\* os.kill(pid, signal.SIGTERM): delivered, or OSError "No such process".
KillOutcome(target) == IF target \in Alive THEN "sent" ELSE "ESRCH"

\* Faulty variant: the "No such process" text is never recognised.
NoSuchProcessNever(outcome) == FALSE

\* error.find("No such process") > 0
NoSuchProcess(outcome) == outcome = "ESRCH"

\* The process running invocation c ends (sys.exit, return from the command,
\* uncaught exception or log2die); how is recorded for the caller process.
Ends(c, how) ==
    /\ proc' = [proc EXCEPT ![c] = 0]
    /\ pc' = [pc EXCEPT ![c] = "done"]
    /\ exit' = IF proc[c] = CallerPid(c) THEN [exit EXCEPT ![c] = how] ELSE exit

\* log.log2die(code, message): log the code and terminate the process.
Log2Die(c, code) ==
    /\ log' = [log EXCEPT ![c] = Append(@, code)]
    /\ Ends(c, "fatal")

\* Faulty variant: restart() that calls start() without waiting for stop()'s result.
EntryRestartStartsFirst(o) ==
    CASE o \in {"start", "restart"} -> "start_read"
      [] o = "stop" -> "stop_read"
      [] o = "force" -> "force_dellock"
      [] OTHER -> "status"

\* First statement of each operation: restart() begins with stop(), force()
\* with dellock().
Entry(o) ==
    CASE o = "start" -> "start_read"
      [] o \in {"stop", "restart"} -> "stop_read"
      [] o = "force" -> "force_dellock"
      [] OTHER -> "status"

\* ----------------------------------------------------------------- actions

\* A controller process invokes one of the operations ops on the daemon
\* object.
Invoke(c, ops) ==
    /\ pc[c] = "idle"
    /\ c > 1 => pc[c - 1] # "idle"
    /\ \E o \in ops :
        /\ op' = [op EXCEPT ![c] = o]
        /\ pc' = [pc EXCEPT ![c] = Entry(o)]
    /\ proc' = [proc EXCEPT ![c] = CallerPid(c)]
    /\ UNCHANGED <<pidfile, attached, lockfile, lockConfigured, pending,
                   seen, log, exit, hooks>>

\* start(): read the PID file and refuse if it names a PID.
StartRead(c) ==
    /\ pc[c] = "start_read"
    /\ seen' = [seen EXCEPT ![c] = pidfile]
    /\ LET r == StartReadPid(pidfile) IN
        IF r.kind = "ValueError"
        THEN /\ Ends(c, "exception")
             /\ UNCHANGED log
        ELSE IF StartAlreadyRunning(r)
        THEN Log2Die(c, 1062)
        ELSE /\ pc' = [pc EXCEPT ![c] = "fork1"]
             /\ UNCHANGED <<proc, log, exit>>
    /\ UNCHANGED <<pidfile, attached, lockfile, lockConfigured, pending, op,
                   hooks>>

\* daemonize(): first fork; the parent exits 0, the child goes on.
Fork1(c) ==
    /\ pc[c] = "fork1"
    /\ \E ok \in BOOLEAN :
        IF ok
        THEN /\ proc' = [proc EXCEPT ![c] = MidPid(c)]
             /\ exit' = [exit EXCEPT ![c] = "exit0"]
             /\ pc' = [pc EXCEPT ![c] = "fork2"]
             /\ UNCHANGED log
        ELSE Log2Die(c, 1060)
    /\ UNCHANGED <<pidfile, attached, lockfile, lockConfigured, pending, op,
                   seen, hooks>>

\* Faulty variant: a failed second fork is reported with the code of the first.
Fork2Logs1060(c) ==
    /\ pc[c] = "fork2"
    /\ \E ok \in BOOLEAN :
        IF ok
        THEN /\ proc' = [proc EXCEPT ![c] = DaemonPid(c)]
             /\ pc' = [pc EXCEPT ![c] = "register"]
             /\ UNCHANGED <<log, exit>>
        ELSE Log2Die(c, 1060)
    /\ UNCHANGED <<pidfile, attached, lockfile, lockConfigured, pending, op,
                   seen, hooks>>

\* Faulty variant: after the second fork the child exits and the parent (the
\* session leader) goes on.
Fork2ParentGoesOn(c) ==
    /\ pc[c] = "fork2"
    /\ \E ok \in BOOLEAN :
        IF ok
        THEN /\ pc' = [pc EXCEPT ![c] = "register"]
             /\ UNCHANGED <<proc, log, exit>>
        ELSE Log2Die(c, 1061)
    /\ UNCHANGED <<pidfile, attached, lockfile, lockConfigured, pending, op,
                   seen, hooks>>

\* daemonize(): chdir, setsid, umask, second fork; the parent exits 0.
Fork2(c) ==
    /\ pc[c] = "fork2"
    /\ \E ok \in BOOLEAN :
        IF ok
        THEN /\ proc' = [proc EXCEPT ![c] = DaemonPid(c)]
             /\ pc' = [pc EXCEPT ![c] = "register"]
             /\ UNCHANGED <<log, exit>>
        ELSE Log2Die(c, 1061)
    /\ UNCHANGED <<pidfile, attached, lockfile, lockConfigured, pending, op,
                   seen, hooks>>

\* Faulty variant: the streams are redirected but delpid is not registered.
RegisterSkipsHook(c) ==
    /\ pc[c] = "register"
    /\ pc' = [pc EXCEPT ![c] = "open"]
    /\ UNCHANGED <<pidfile, attached, lockfile, lockConfigured, proc, pending,
                   op, seen, log, exit, hooks>>

\* daemonize(): redirect the standard streams, atexit.register(self.delpid).
Register(c) ==
    /\ pc[c] = "register"
    /\ hooks' = hooks \cup {c}
    /\ pc' = [pc EXCEPT ![c] = "open"]
    /\ UNCHANGED <<pidfile, attached, lockfile, lockConfigured, proc, pending,
                   op, seen, log, exit>>

\* daemonize(): open(self.pidfile, 'w+') creates or truncates the file.
OpenPid(c) ==
    /\ pc[c] = "open"
    /\ pidfile' = File(<<>>)
    /\ attached' = attached \cup {c}
    /\ pc' = [pc EXCEPT ![c] = "write"]
    /\ UNCHANGED <<lockfile, lockConfigured, proc, pending, op, seen, log,
                   exit, hooks>>

\* daemonize(): write str(os.getpid()) + '\n' and close; back in start():
\* log2quiet(1070) and run() is entered. A handle whose file was removed
\* meanwhile writes to the unlinked file.
WritePid(c) ==
    /\ pc[c] = "write"
    /\ pidfile' = IF c \in attached
                  THEN File(Overlay(PidFileText(proc[c]), pidfile.data))
                  ELSE pidfile
    /\ attached' = attached \ {c}
    /\ log' = [log EXCEPT ![c] = Append(@, 1070)]
    /\ pc' = [pc EXCEPT ![c] = "run"]
    /\ UNCHANGED <<lockfile, lockConfigured, proc, pending, op, seen, exit,
                   hooks>>

\* run() returns, start() returns, the interpreter exits and runs the atexit
\* hooks.
RunReturns(c) ==
    /\ pc[c] = "run"
    /\ pidfile' = IF c \in hooks THEN DelPid(pidfile) ELSE pidfile
    /\ attached' = IF c \in hooks /\ pidfile.exists THEN {} ELSE attached
    /\ Ends(c, "exit0")
    /\ UNCHANGED <<lockfile, lockConfigured, pending, op, seen, log, hooks>>

\* The work loop inside run() marks a busy period.
LockCreate(c) ==
    /\ pc[c] = "run"
    /\ lockConfigured
    /\ ~lockfile
    /\ lockfile' = TRUE
    /\ UNCHANGED <<pidfile, attached, lockConfigured, proc, pending, op, pc,
                   seen, log, exit, hooks>>

\* The work loop ends its busy period.
LockRemove(c) ==
    /\ pc[c] = "run"
    /\ lockConfigured
    /\ lockfile
    /\ lockfile' = FALSE
    /\ UNCHANGED <<pidfile, attached, lockConfigured, proc, pending, op, pc,
                   seen, log, exit, hooks>>

\* A pending SIGTERM acts on its target: default disposition, the process is
\* killed and no atexit hook runs.
Sigterm(c) ==
    /\ proc[c] # 0
    /\ proc[c] \in pending
    /\ pending' = pending \ {proc[c]}
    /\ attached' = attached \ {c}
    /\ Ends(c, "killed")
    /\ UNCHANGED <<pidfile, lockfile, lockConfigured, op, seen, log, hooks>>

\* stop() has returned to its caller: restart() goes on with start(), the
\* other commands are finished.
AfterStop(c) ==
    IF op[c] = "restart"
    THEN /\ pc' = [pc EXCEPT ![c] = "start_read"]
         /\ UNCHANGED <<proc, exit>>
    ELSE Ends(c, "exit0")

\* stop(): read the PID file; warn and return if there is no PID.
StopRead(c) ==
    /\ pc[c] = "stop_read"
    /\ seen' = [seen EXCEPT ![c] = pidfile]
    /\ LET r == StopReadPid(pidfile) IN
        IF r.kind = "ValueError"
        THEN /\ Ends(c, "exception")
             /\ UNCHANGED log
        ELSE IF StopNotRunning(r)
        THEN /\ log' = [log EXCEPT ![c] = Append(@, 1063)]
             /\ AfterStop(c)
        ELSE /\ pc' = [pc EXCEPT ![c] =
                        IF lockConfigured THEN "stop_poll" ELSE "stop_kill"]
             /\ UNCHANGED <<proc, log, exit>>
    /\ UNCHANGED <<pidfile, attached, lockfile, lockConfigured, pending, op,
                   hooks>>

\* Faulty variant: the loop goes on to os.kill without testing the lock file.
StopPollIgnoresLock(c) ==
    /\ pc[c] = "stop_poll"
    /\ pc' = [pc EXCEPT ![c] = "stop_kill"]
    /\ UNCHANGED <<pidfile, attached, lockfile, lockConfigured, proc, pending,
                   op, seen, log, exit, hooks>>

\* stop(), lock file configured: sleep, then test the lock file; while it
\* exists the loop continues without signalling.
StopPoll(c) ==
    /\ pc[c] = "stop_poll"
    /\ ~lockfile
    /\ pc' = [pc EXCEPT ![c] = "stop_kill"]
    /\ UNCHANGED <<pidfile, attached, lockfile, lockConfigured, proc, pending,
                   op, seen, log, exit, hooks>>

\* stop(): os.kill(pid, SIGTERM). Delivered: sleep and loop. "No such
\* process": delpid(), dellock() in the handler. Any other OSError (here: not
\* permitted): log2die(1068).
StopKill(c) ==
    /\ pc[c] = "stop_kill"
    /\ LET target == StopReadPid(seen[c]).val IN
        IF NoSuchProcess(KillOutcome(target))
        THEN /\ pidfile' = DelPid(pidfile)
             /\ attached' = IF pidfile.exists THEN {} ELSE attached
             /\ lockfile' = DelLock(lockfile)
             /\ pc' = [pc EXCEPT ![c] = "stop_finish"]
             /\ UNCHANGED <<proc, pending, log, exit>>
        ELSE \E permitted \in BOOLEAN :
            IF permitted
            THEN /\ pending' = pending \cup {target}
                 /\ pc' = [pc EXCEPT ![c] =
                            IF lockConfigured THEN "stop_poll" ELSE "stop_kill"]
                 /\ UNCHANGED <<pidfile, attached, lockfile, proc, log, exit>>
            ELSE /\ Log2Die(c, 1068)
                 /\ UNCHANGED <<pidfile, attached, lockfile, pending>>
    /\ UNCHANGED <<lockConfigured, op, seen, hooks>>

\* stop(), after the loop: delpid(), dellock(), log2quiet(1071), return.
StopFinish(c) ==
    /\ pc[c] = "stop_finish"
    /\ pidfile' = DelPid(pidfile)
    /\ attached' = IF pidfile.exists THEN {} ELSE attached
    /\ lockfile' = DelLock(lockfile)
    /\ log' = [log EXCEPT ![c] = Append(@, 1071)]
    /\ AfterStop(c)
    /\ UNCHANGED <<lockConfigured, pending, op, seen, hooks>>

\* force(): dellock(), then stop().
ForceDelLock(c) ==
    /\ pc[c] = "force_dellock"
    /\ lockfile' = DelLock(lockfile)
    /\ pc' = [pc EXCEPT ![c] = "stop_read"]
    /\ UNCHANGED <<pidfile, attached, lockConfigured, proc, pending, op, seen,
                   log, exit, hooks>>

\* Faulty variant: status() that reads the PID file and reports by its PID.
StatusReadsPid(c) ==
    /\ pc[c] = "status"
    /\ log' = [log EXCEPT ![c] =
                Append(@, IF StartAlreadyRunning(StopReadPid(pidfile))
                          THEN "running" ELSE "stopped")]
    /\ Ends(c, "exit0")
    /\ UNCHANGED <<pidfile, attached, lockfile, lockConfigured, pending, op,
                   seen, hooks>>

\* status(): print according to os.path.exists(self.pidfile).
Status(c) ==
    /\ pc[c] = "status"
    /\ log' = [log EXCEPT ![c] =
                Append(@, IF pidfile.exists THEN "running" ELSE "stopped")]
    /\ Ends(c, "exit0")
    /\ UNCHANGED <<pidfile, attached, lockfile, lockConfigured, pending, op,
                   seen, hooks>>

\* Every step after the invocation, except the PID-file check of start().
Rest(c) ==
    \/ Fork1(c)
    \/ Fork2(c)
    \/ Register(c)
    \/ OpenPid(c)
    \/ WritePid(c)
    \/ RunReturns(c)
    \/ LockCreate(c)
    \/ LockRemove(c)
    \/ Sigterm(c)
    \/ StopRead(c)
    \/ StopPoll(c)
    \/ StopKill(c)
    \/ StopFinish(c)
    \/ ForceDelLock(c)
    \/ Status(c)

Begin(c) == Invoke(c, Ops)

Next == \E c \in FreeInv : Begin(c) \/ StartRead(c) \/ Rest(c)

Spec == Init /\ [][Next]_vars

\* Scheduling: a process that can take its next step in stop() (the sleep is
\* over, the call returns) takes it, and a SIGTERM sent to a process acts on it.
\* (For one invocation the four steps are enabled at different positions, so
\* one condition on their disjunction is a condition on each.)
Fairness ==
    \A c \in FreeInv :
        WF_vars(StopPoll(c) \/ StopKill(c) \/ StopFinish(c) \/ Sigterm(c))

\* Spec under fair scheduling of stop() and of signal delivery.
SpecFair == Init /\ [][Next]_vars /\ Fairness

\* A start() is in progress from its PID-file check up to its PID-file write.
StartInProgress(c) == pc[c] \in {"fork1", "fork2", "register", "open", "write"}

\* The PID-file check of a start() that overlaps no other start().
SerialStartRead(c) ==
    /\ \A d \in Inv \ {c} : ~StartInProgress(d)
    /\ StartRead(c)

\* Invocations of the commands other than restart().
BeginPlain(c) == Invoke(c, Ops \ {"restart"})

NextSerial == \E c \in Inv : BeginPlain(c) \/ SerialStartRead(c) \/ Rest(c)

\* Any interleaving of start(), stop(), force() and status() invocations in
\* which no two start() invocations overlap.
SpecSerial == Init /\ [][NextSerial]_vars

\* ------------------------------------------------------------------ claims

\* Invocation c is a daemon instance: its process has completed daemonize()
\* and has not exited.
Instance(c) == pc[c] = "run"

\* Positions of start() after its PID-file check has let it through.
LaunchPcs == {"fork1", "fork2", "register", "open", "write", "run"}

\* Invocation c moved in this step.
Moved(c) == pc'[c] # pc[c] \/ log'[c] # log[c]

\* The PID invocation c's stop() took from the PID file.
Target(c) == StopReadPid(seen[c]).val

\* C1: for one PID-file path at most one daemon instance is alive in every
\* reachable state, under any interleaving of stop(), force(), status() and
\* daemon exits, provided no two start() invocations overlap (checked under
\* SpecSerial, which admits exactly the interleavings without such overlap).
C1_AtMostOneInstance == Cardinality({c \in Inv : Instance(c)}) <= 1

\* C2: a start() whose check found the PID file present with non-empty content
\* (any content) fails without forking: it never reaches the forks, the
\* atexit registration, the PID-file write or run(), and its caller does not
\* exit with success.
C2_StartRefusesAnyContent ==
    \A c \in Inv :
        (op[c] \in {"start", "restart"} /\ seen[c].exists /\ seen[c].data # <<>>)
            => (pc[c] \notin LaunchPcs /\ exit[c] # "exit0" /\ c \notin hooks)

\* C3 (as claimed): whenever start() has succeeded for its caller (PID file
\* absent at the check, both forks done, caller exited 0) and the detached
\* process is alive, the PID file exists and reads back as that process's PID.
C3_CallerExitImpliesPidFile ==
    \A c \in Inv :
        (/\ op[c] = "start"
         /\ ~seen[c].exists
         /\ exit[c] = "exit0"
         /\ pc[c] \in {"register", "open", "write", "run"})
            => (/\ pidfile.exists
                /\ StartReadPid(pidfile) = [kind |-> "int", val |-> DaemonPid(c)])

\* C3 (amended): when the detached process finishes daemonize() (its PID-file
\* write), and no other process wrote or removed the PID file since that
\* process opened it, the PID file exists and reads back as a nonnegative
\* integer equal to the detached process's PID; the caller has exited 0 before.
C3_PidFileAfterDaemonize ==
    [][\A c \in Inv :
        (/\ pc[c] = "write"
         /\ pc'[c] = "run"
         /\ c \in attached
         /\ pidfile.data = <<>>)
            => (/\ pidfile'.exists
                /\ StartReadPid(pidfile').kind = "int"
                /\ StartReadPid(pidfile').val >= 0
                /\ StartReadPid(pidfile').val = DaemonPid(c)
                /\ proc'[c] = DaemonPid(c)
                /\ exit[c] = "exit0")]_vars

\* C3 witness: a daemon instance launched by start() whose caller exited 0 and
\* whose PID is what the PID file reads back as.
C3_Witness ==
    \E c \in Inv :
        /\ op[c] = "start"
        /\ Instance(c)
        /\ exit[c] = "exit0"
        /\ pidfile = File(PidFileText(DaemonPid(c)))
        /\ StartReadPid(pidfile) = [kind |-> "int", val |-> DaemonPid(c)]

\* C4: in every reachable state in which a daemon instance is alive, the PID
\* file exists and its content parses to that instance's own PID.
C4_AlivePidFileOwn ==
    \A c \in Inv :
        Instance(c) =>
            (/\ pidfile.exists
             /\ StopReadPid(pidfile) = [kind |-> "int", val |-> proc[c]])

\* C5: a stop() that finds no PID file logs the warning 1063 and returns
\* normally; it sends no signal, does not create the PID file and leaves the
\* lock file alone, so any number of repetitions ends in the same state.
C5_StopWithoutPidFile ==
    [][\A c \in Inv :
        (pc[c] = "stop_read" /\ Moved(c) /\ ~pidfile.exists)
            => (/\ log'[c] = Append(log[c], 1063)
                /\ pending' = pending
                /\ pidfile' = pidfile
                /\ lockfile' = lockfile
                /\ \A d \in Inv \ {c} : proc'[d] = proc[d]
                /\ IF op[c] = "restart"
                   THEN pc'[c] = "start_read" /\ exit'[c] = exit[c]
                   ELSE pc'[c] = "done" /\ exit'[c] = "exit0")]_vars

\* C5 witness: two stop() invocations in a row have both warned and returned
\* with no PID file before and after.
C5_Witness ==
    \E c, d \in Inv :
        /\ c # d
        /\ \A e \in {c, d} :
            /\ op[e] = "stop"
            /\ ~seen[e].exists
            /\ log[e] = <<1063>>
            /\ exit[e] = "exit0"
        /\ ~pidfile.exists

\* C6: a stop() that finds the PID file with content that is no integer (empty
\* or non-numeric) treats the daemon as not running: warning 1063, normal
\* return, no error.
C6_StopToleratesUnparsable ==
    \A c \in Inv :
        (/\ op[c] \in {"stop", "force"}
         /\ seen[c].exists
         /\ StopReadPid(seen[c]).kind = "ValueError")
            => (exit[c] = "exit0" /\ log[c] = <<1063>>)

\* C7: when stop() holds a non-zero PID and the kill fails with "No such
\* process", the handler deletes the PID file and the lock file and stop()
\* goes on to return success (1071), not a fatal error; when it returns,
\* neither file exists.
C7_StopCleansUpDeadTarget ==
    [][\A c \in Inv :
        /\ (pc[c] = "stop_kill" /\ Target(c) \notin Alive /\ Moved(c))
            => (/\ pc'[c] = "stop_finish"
                /\ ~pidfile'.exists
                /\ ~lockfile'
                /\ log'[c] = log[c]
                /\ exit'[c] = exit[c])
        /\ (pc[c] = "stop_finish" /\ Moved(c))
            => (/\ ~pidfile'.exists
                /\ ~lockfile'
                /\ log'[c] = Append(log[c], 1071)
                /\ IF op[c] = "restart"
                   THEN pc'[c] = "start_read" /\ exit'[c] = exit[c]
                   ELSE pc'[c] = "done" /\ exit'[c] = "exit0")]_vars

\* C7 witness: a stop() with a lock file configured has returned success after
\* its target turned out not to exist, and neither file exists.
C7_Witness ==
    \E c \in Inv :
        /\ op[c] = "stop"
        /\ lockConfigured
        /\ pc[c] = "done"
        /\ log[c] = <<1071>>
        /\ exit[c] = "exit0"
        /\ Target(c) # 0
        /\ Target(c) \notin Alive
        /\ ~pidfile.exists
        /\ ~lockfile

\* Positions inside stop().
StopPcs == {"stop_read", "stop_poll", "stop_kill", "stop_finish"}

\* C8 (as claimed): with a lock file configured, stop() delivers no SIGTERM at
\* a moment at which the lock file exists.
C8_NoSignalWhileLocked ==
    [][\A c \in Inv :
        (/\ lockConfigured
         /\ pc[c] = "stop_kill"
         /\ Target(c) \in Alive
         /\ pc'[c] = "stop_poll"
         /\ pending' = pending \cup {Target(c)})
            => ~lockfile]_vars

\* C8 (amended): with a lock file configured, stop() reaches os.kill only
\* straight from a check of its own that found the lock file absent, every
\* such check licenses one kill, and signals are sent from nowhere else; the
\* lock file may have been created again between the check and the kill.
C8_SignalOnlyAfterLockCheck ==
    [][lockConfigured =>
        /\ \A c \in Inv :
            /\ (pc'[c] = "stop_kill" /\ pc[c] # "stop_kill")
                => (pc[c] = "stop_poll" /\ ~lockfile)
            /\ (pc[c] = "stop_kill" /\ Moved(c)) => pc'[c] # "stop_kill"
        /\ ~(pending' \subseteq pending)
            => \E d \in Inv :
                /\ pc[d] = "stop_kill"
                /\ pc'[d] = "stop_poll"
                /\ pending' = pending \cup {Target(d)}]_vars

\* C8 witness: with a lock file configured, a stop() has signalled a live
\* daemon instance and is back at its lock-file check.
C8_Witness ==
    \E c, d \in Inv :
        /\ lockConfigured
        /\ op[c] = "stop"
        /\ pc[c] = "stop_poll"
        /\ Instance(d)
        /\ Target(c) = proc[d]
        /\ proc[d] \in pending

\* C9: force() first removes the lock file if it exists, whatever the PID file
\* holds, touching nothing else, and is then exactly at the start of stop()
\* with the lock file absent; its stop() part ends as a stop() does (finished,
\* never going on to start()).
C9_ForceIsDelLockThenStop ==
    [][\A c \in Inv :
        /\ (pc[c] = "force_dellock" /\ Moved(c))
            => (/\ ~lockfile'
                /\ pc'[c] = "stop_read"
                /\ pidfile' = pidfile
                /\ attached' = attached
                /\ pending' = pending
                /\ proc' = proc
                /\ seen' = seen
                /\ log' = log
                /\ exit' = exit)
        /\ (op[c] = "force" /\ pc[c] \in StopPcs /\ pc'[c] \notin StopPcs)
            => (/\ pc'[c] = "done"
                /\ proc'[c] = 0
                /\ exit'[c] = (IF log'[c] # log[c]
                               THEN (IF pc[c] = "stop_kill" THEN "fatal"
                                     ELSE "exit0")
                               ELSE "exception"))]_vars

\* C9 witness: with a lock file configured, a force() has run its stop() part
\* to success, and neither file exists.
C9_Witness ==
    \E c \in Inv :
        /\ op[c] = "force"
        /\ lockConfigured
        /\ pc[c] = "done"
        /\ log[c] = <<1071>>
        /\ exit[c] = "exit0"
        /\ ~lockfile
        /\ ~pidfile.exists

\* C10: restart() enters start() only after its stop() has returned (warning
\* 1063 or success 1071 logged first); if its stop() ends fatally (log2die or
\* an uncaught exception) start() is never entered and the invocation has
\* created no process; if its stop() only warns, start() is entered next, in
\* the same process.
C10_RestartStopsThenStarts ==
    [][\A c \in Inv :
        op'[c] = "restart" =>
            /\ (pc'[c] \in {"start_read"} \cup LaunchPcs)
                => (Len(log'[c]) >= 1 /\ log'[c][1] \in {1063, 1071})
            /\ (/\ exit'[c] \in {"fatal", "exception"}
                /\ (log'[c] = <<>> \/ log'[c][1] \notin {1063, 1071}))
                => (/\ pc'[c] = "done"
                    /\ proc'[c] = 0
                    /\ Len(log'[c]) <= 1
                    /\ c \notin hooks')
            /\ (pc[c] = "stop_read" /\ log'[c] = Append(log[c], 1063))
                => (pc'[c] = "start_read" /\ proc'[c] = proc[c])]_vars

\* C10 witness: a restart() found no PID file, warned, and its start() has
\* launched a daemon instance.
C10_Witness ==
    \E c \in Inv :
        /\ op[c] = "restart"
        /\ Instance(c)
        /\ ~seen[c].exists
        /\ log[c] = <<1063, 1070>>

\* C11: status() prints "running" exactly when the PID file exists and
\* "stopped" exactly when it does not, whatever the file holds and whether or
\* not the process it names is alive; it ends normally and changes neither
\* file, no pending signal and no other process.
C11_StatusByPidFileExistence ==
    [][\A c \in Inv :
        (pc[c] = "status" /\ Moved(c))
            => (/\ log'[c] = Append(log[c], IF pidfile.exists THEN "running"
                                            ELSE "stopped")
                /\ pc'[c] = "done"
                /\ exit'[c] = "exit0"
                /\ pidfile' = pidfile
                /\ attached' = attached
                /\ lockfile' = lockfile
                /\ pending' = pending
                /\ \A d \in Inv \ {c} : proc'[d] = proc[d])]_vars

\* C11 witness: a status() has reported "running" for a PID file that names a
\* PID of no live process.
C11_Witness ==
    \E c \in Inv :
        /\ op[c] = "status"
        /\ log[c] = <<"running">>
        /\ exit[c] = "exit0"
        /\ pidfile = File(PidFileText(StalePid))
        /\ Alive = {}

\* C12: the PID file gets content only through the write of a process that is
\* past the second fork and the stream redirection: every step that gives the
\* PID file new non-empty content is the write of a detached process whose
\* caller has exited, and the text written is that process's own PID, never
\* the PID of the caller or of the intermediate child.
C12_PidWrittenByDetachedProcess ==
    [][(pidfile' # pidfile /\ pidfile'.exists /\ pidfile'.data # <<>>)
        => \E c \in Inv :
            /\ pc[c] = "write"
            /\ pc'[c] = "run"
            /\ proc[c] = DaemonPid(c)
            /\ exit[c] = "exit0"
            /\ Len(pidfile'.data) >= Len(PidFileText(DaemonPid(c)))
            /\ SubSeq(pidfile'.data, 1, Len(PidFileText(DaemonPid(c))))
                   = PidFileText(DaemonPid(c))
            /\ StartReadPid(File(PidFileText(DaemonPid(c))))
                   = [kind |-> "int", val |-> DaemonPid(c)]
            /\ \A d \in Inv :
                /\ PidFileText(DaemonPid(c)) # PidFileText(CallerPid(d))
                /\ PidFileText(DaemonPid(c)) # PidFileText(MidPid(d))
            /\ pidfile.data = <<>>
                => StartReadPid(pidfile').val \notin
                       {CallerPid(c), MidPid(c)}]_vars

\* C12 witness: a start() has written the PID file from its detached process,
\* and the file reads back as neither the caller's nor the first child's PID.
C12_Witness ==
    \E c \in Inv :
        /\ op[c] = "start"
        /\ Instance(c)
        /\ proc[c] = DaemonPid(c)
        /\ c \in hooks
        /\ pidfile.exists
        /\ StartReadPid(pidfile).kind = "int"
        /\ StartReadPid(pidfile).val = proc[c]
        /\ StartReadPid(pidfile).val \notin {CallerPid(c), MidPid(c)}

\* C13: in the detached process delpid is registered with atexit before the
\* PID file is opened and written, run() is entered only from the completed
\* write, and when run() returns and the process exits normally the PID file
\* does not exist afterwards.
C13_HookThenWriteThenRun ==
    [][\A c \in Inv :
        /\ (pc[c] \in {"open", "write"} /\ Moved(c)) => c \in hooks
        /\ (pc'[c] = "run" /\ pc[c] # "run")
            => (/\ pc[c] = "write"
                /\ c \in hooks'
                /\ log'[c] = Append(log[c], 1070))
        /\ (pc[c] = "run" /\ pc'[c] = "done" /\ pending' = pending)
            => (~pidfile'.exists /\ proc'[c] = 0)]_vars

\* C13 witness: a lone start() whose run() returned: the hook was registered,
\* the PID file was written (1070 logged) and is gone after the exit.
C13_Witness ==
    \E c \in Inv :
        /\ op[c] = "start"
        /\ pc[c] = "done"
        /\ log[c] = <<1070>>
        /\ c \in hooks
        /\ ~pidfile.exists
        /\ \A d \in Inv \ {c} : pc[d] = "idle"

\* C15: a failed fork in start() ends the sequence with log2die, code 1060 for
\* the first fork (in the calling process) and 1061 for the second (in the
\* first child); the step writes no PID file and registers no hook, and an
\* invocation that logged either code is finished without hook, PID-file
\* write or run().
C15_ForkFailureAborts ==
    [][\A c \in Inv :
        /\ (pc[c] = "fork1" /\ Moved(c) /\ proc'[c] = 0)
            => (/\ log'[c] = Append(log[c], 1060)
                /\ proc[c] = CallerPid(c)
                /\ exit'[c] = "fatal")
        /\ (pc[c] = "fork2" /\ Moved(c) /\ proc'[c] = 0)
            => (/\ log'[c] = Append(log[c], 1061)
                /\ proc[c] = MidPid(c))
        /\ (pc[c] \in {"fork1", "fork2"} /\ Moved(c) /\ proc'[c] = 0)
            => (/\ pc'[c] = "done"
                /\ pidfile' = pidfile
                /\ attached' = attached
                /\ hooks' = hooks)
        /\ (/\ op'[c] \in {"start", "restart"}
            /\ log'[c] # <<>>
            /\ log'[c][Len(log'[c])] \in {1060, 1061})
            => (/\ pc'[c] = "done"
                /\ c \notin hooks'
                /\ \A i \in 1..Len(log'[c]) : log'[c][i] # 1070)]_vars

\* C15 witness: two start() invocations have failed, one at the first fork
\* (1060) and one at the second (1061); no hook is registered and no PID file
\* exists.
C15_Witness ==
    \E c, d \in Inv :
        /\ op[c] = "start"
        /\ op[d] = "start"
        /\ log[c] = <<1060>>
        /\ exit[c] = "fatal"
        /\ log[d] = <<1061>>
        /\ pc[c] = "done"
        /\ pc[d] = "done"
        /\ hooks = {}
        /\ ~pidfile.exists

\* Positions inside the poll loop of stop().
LoopPcs == {"stop_poll", "stop_kill"}

\* C14 (as claimed): under fair scheduling a stop() that is in its loop with a
\* non-zero PID whose process no longer exists eventually returns or ends
\* fatally, whether or not a lock file is configured.
C14_StopEndsOnceTargetGone ==
    \A c \in FreeInv :
        (pc[c] \in LoopPcs /\ Target(c) \notin Alive) ~> (pc[c] \notin StopPcs)

\* C14 (amended): under fair scheduling a stop() that is in its loop with a
\* non-zero PID whose process no longer exists eventually returns or ends
\* fatally unless the lock file exists again and again (without a configured
\* lock file: always); and the loop is left only through an error of os.kill:
\* "No such process" for a dead target, or another OSError (1068, fatal) for a
\* live one.
C14_StopEndsUnlessLocked ==
    /\ \A c \in FreeInv :
        (pc[c] \in LoopPcs /\ Target(c) \notin Alive)
            ~> (pc[c] \notin StopPcs \/ lockfile)
    /\ [][\A c \in Inv :
            (pc[c] \in LoopPcs /\ pc'[c] \notin LoopPcs)
                => /\ pc[c] = "stop_kill"
                   /\ IF Target(c) \in Alive
                      THEN /\ pc'[c] = "done"
                           /\ exit'[c] = "fatal"
                           /\ log'[c] = Append(log[c], 1068)
                      ELSE pc'[c] = "stop_finish"]_vars

\* C14 witness: with a lock file configured, a stop() has left its loop for a
\* target that no longer exists and is about to finish.
C14_Witness ==
    \E c \in Inv :
        /\ lockConfigured
        /\ op[c] = "stop"
        /\ pc[c] = "stop_finish"
        /\ Target(c) # 0
        /\ Target(c) \notin Alive

====
